---- MODULE Spec2Model ----
(***************************************************************************)
(* The fetch / dedup / cursor loop of two Okta log collectors:             *)
(*   Packs/Okta/Integrations/OktaLog/OktaLog.py          ("OktaLog")       *)
(*   Packs/OktaSIEM/Integrations/OKTA_SIEM_Data/OKTA_SIEM_Data.py          *)
(*                                                   ("OKTA_SIEM_Data")    *)
(* One integration instance is modelled at a time (variable integration).  *)
(* The upstream log API, the host's persisted last-run store, the XSIAM    *)
(* sink and the war-room results are the environment.                      *)
(*                                                                         *)
(* Strings that carry a value in some textual format (timestamps, integer  *)
(* parameters) are records [fmt, t]: the format decides which parser       *)
(* accepts the string, t is the value it denotes.  Instants are counted in *)
(* ticks, TicksPerSec ticks to the second.                                 *)
(***************************************************************************)
EXTENDS Integers, Sequences, FiniteSets, TLC

\* ------------------------------------------------------------- bounds
MaxEvents == 4        \* events the upstream ever holds
MaxTime == 3          \* latest instant (in ticks) an event is published at
TicksPerSec == 2      \* sub-second resolution of `published`
MaxStored == 5        \* longest accumulator the model follows
MaxSink == 3          \* most chunks the model lets the sink receive

\* ---------------------------------------------------------- constants
DefaultRequestSize == 2000

\* the uuid of the n-th event the upstream receives
UUIDS == <<"a", "b", "c", "d", "e", "f", "g", "h">>

Times == 0..MaxTime
TicksPerDay == 86400 * TicksPerSec
\* the wall clock of a run: no event is published after it
Today == MaxTime

\* ------------------------------------------------------------ strings
\* "2023-01-01T10:00:00.500Z": Okta's `published`, always with milliseconds
OktaTs(t) == [fmt |-> "okta_ms_z", t |-> t]
\* a decimal integer, as in the integration parameters
IntStr(n) == [fmt |-> "int", t |-> n]
\* a parameter value int() rejects
NotAnInt == [fmt |-> "text", t |-> 0]

\* datetime.isoformat(): the fraction is printed only when it is not zero
isoformat(t) ==
    [fmt |-> IF t % TicksPerSec = 0 THEN "iso_seconds" ELSE "iso_micros", t |-> t]

\* int(s): defined on decimal integers only; anything else is a ValueError
IntParses(s) == s.fmt = "int"

\* strptime(str(s).lower().replace('z', ''), '%Y-%m-%dt%H:%M:%S.%f'):
\* the format demands a fraction
StrptimeParses(s) == s.fmt \in {"okta_ms_z", "iso_micros"}

Sec(t) == t \div TicksPerSec

\* ------------------------------------------------------------- python
Last(s) == s[Len(s)]
Front(s) == SubSeq(s, 1, Len(s) - 1)
Min(a, b) == IF a < b THEN a ELSE b
Max(a, b) == IF a < b THEN b ELSE a

\* s[:n] and s[n:] with Python's slice bounds (a negative n counts from the end)
SliceIndex(s, n) == IF n >= 0 THEN Min(n, Len(s)) ELSE Max(Len(s) + n, 0)
SliceTo(s, n) == SubSeq(s, 1, SliceIndex(s, n))
SliceFrom(s, n) == SubSeq(s, SliceIndex(s, n) + 1, Len(s))

\* del s[i] (0-based i); out of range raises IndexError
DelAt(s, i) == SubSeq(s, 1, i) \o SubSeq(s, i + 2, Len(s))

RECURSIVE Flatten(_)
Flatten(ss) == IF ss = <<>> THEN <<>> ELSE Head(ss) \o Flatten(Tail(ss))

Uuids(es) == [i \in 1..Len(es) |-> es[i].uuid]
Distinct(s) == \A i, j \in 1..Len(s) : i # j => s[i] # s[j]
ToSet(s) == {s[i] : i \in 1..Len(s)}

\* ----------------------------------------------------------- records
NoError == [exc |-> "None", cause |-> "None"]
NoResults == [kind |-> "none", events |-> <<>>]
\* demisto.getLastRun() of an instance that never called setLastRun: {}
NoLastRun == [k \in {} |-> 0]
HasKey(d, k) == k \in DOMAIN d

VARIABLES
    integration,    \* which integration this instance runs
    upstream,       \* the events the API holds, in the order it returns them
    lastRun,        \* the host's persisted last-run object
    params,         \* demisto.params(): limit, request_size, after
    request_size,   \* main: the chunk size after int()
    command,        \* demisto.command() of the current invocation
    pc,             \* where the current invocation stands
    since,          \* request.params.since
    last_run,       \* main: what getLastRun() returned to this invocation
    last_object_ids,\* main / _iter_events: the ids to drop from the first page
    events,         \* _iter_events: the page at hand; main: what is left to send
    stored_events,  \* aggregated_results: the accumulator
    sent,           \* the chunks this invocation handed to send_events_to_xsiam
    sink,           \* every chunk the sink received, over all invocations
    results,        \* what the invocation returned to the war room
    new_last_run,   \* OKTA_SIEM_Data fetch_logs: the last-run object it returns
    error,          \* the exception that ended the invocation
    replay          \* OktaLog: the invocation at hand was started by Retry, as
                    \* the replay of the invocation before it, which failed

vars == <<integration, upstream, lastRun, params, request_size, command, pc,
          since, last_run, last_object_ids, events, stored_events, sent, sink,
          results, new_last_run, error, replay>>

cfgVars == <<integration, params, new_last_run, replay>>
runVars == <<request_size, command, pc, since, last_run, last_object_ids,
             events, stored_events, sent, results, error>>

\* ----------------------------------------------------------- upstream
\* faulty variant of SinceFilter: the API ignores `since`
SinceFilter_all(es, s) == es
\* GET logs?since=<ts>&sortOrder=ASCENDING&limit=<n>: the first n events
\* published at or after `since` (the filter is inclusive)
SinceFilter(es, s) == SelectSeq(es, LAMBDA e : e.published.t >= s.t)
Page(es, s, n) == SliceTo(SinceFilter(es, s), n)

\* the API returns events ascending by whole second only
SecondSorted(es) ==
    \A i, j \in 1..Len(es) : i < j => Sec(es[i].published.t) <= Sec(es[j].published.t)

\* a new event arrives upstream (append-only)
UpstreamAppend ==
    /\ Len(upstream) < MaxEvents
    /\ \E t \in Times :
         /\ upstream # <<>> => Sec(t) >= Sec(Last(upstream).published.t)
         /\ upstream' = Append(upstream,
                [uuid |-> UUIDS[Len(upstream) + 1], published |-> OktaTs(t)])
    /\ UNCHANGED <<lastRun, sink>>
    /\ UNCHANGED cfgVars
    /\ UNCHANGED runVars

\* ============================================================ OktaLog
\* ---------------------------------------------- GetEvents (pure part)
\* remove_duplicates, first loop: the 0-based indexes of the events whose
\* uuid is in ids, ascending
duplicates_indexes(es, ids) ==
    SelectSeq([i \in 1..Len(es) |-> i - 1], LAMBDA i : es[i + 1].uuid \in ToSet(ids))

\* remove_duplicates, second loop: `del events[i]` for each collected index in
\* turn, on the list as the earlier deletions left it
RECURSIVE DeleteEach(_, _)
DeleteEach(es, idxs) ==
    IF idxs = <<>> THEN [ok |-> TRUE, events |-> es]
    ELSE IF Head(idxs) >= Len(es) THEN [ok |-> FALSE, events |-> es]
    ELSE DeleteEach(DelAt(es, Head(idxs)), Tail(idxs))

\* ok = FALSE: the call raised IndexError
remove_duplicates(es, ids) == DeleteEach(es, duplicates_indexes(es, ids))

\* get_last_run: the cursor computed from the accumulated events, `after` and
\* `ids` taken from the last one
get_last_run_ids(es) ==
    Uuids(SelectSeq(es, LAMBDA e : e.published = Last(es).published))
\* faulty variant of get_last_run: the cursor is taken from the first event
get_last_run_first(es) ==
    [after |-> isoformat(Head(es).published.t),
     ids |-> Uuids(SelectSeq(es, LAMBDA e : e.published = Head(es).published))]
get_last_run(es) ==
    [after |-> isoformat(Last(es).published.t), ids |-> get_last_run_ids(es)]

\* ------------------------------------------------------------- main
OktaCommands == {"test-module", "okta-get-events", "fetch-events"}

\* faulty variant of IsEventsCommand: the test-module branch falls into the events branch
IsEventsCommand_any(c) == TRUE

\* main line 168: the commands whose events are fetched with the last run's ids
\* (line 170) and whose non-empty result is persisted with setLastRun (line 172)
IsEventsCommand(c) == c \in {"okta-get-events", "fetch-events"}

\* demisto.params() | demisto.args() | demisto.getLastRun(): the last run's
\* keys win, `after` among them
demisto_params_after(ps, lr) == IF HasKey(lr, "after") THEN lr.after ELSE ps.after

\* request_size = int(...), 2000 when int() raises ValueError
ParseRequestSize(s) == IF IntParses(s) THEN s.t ELSE DefaultRequestSize

\* the host invokes the integration with command c: a fresh interpreter, no
\* locals, nothing returned yet
Start(c) ==
    /\ integration = "OktaLog"
    /\ pc \in {"idle", "done", "failed"}
    /\ command' = c
    /\ pc' = "main"
    /\ results' = NoResults
    /\ error' = NoError
    /\ sent' = <<>>
    /\ events' = <<>>
    /\ stored_events' = <<>>
    /\ replay' = FALSE
    /\ UNCHANGED <<upstream, lastRun, sink>>
    /\ UNCHANGED <<integration, params, new_last_run>>
    /\ UNCHANGED <<request_size, since, last_run, last_object_ids>>

\* faulty variant of Retry: the pages the failed attempt had accumulated are
\* still in the accumulator when the replay starts
Retry_stale ==
    /\ integration = "OktaLog"
    /\ pc = "failed"
    /\ pc' = "main"
    /\ results' = NoResults
    /\ error' = NoError
    /\ sent' = <<>>
    /\ events' = <<>>
    /\ replay' = TRUE
    /\ UNCHANGED <<upstream, lastRun, sink>>
    /\ UNCHANGED <<integration, params, new_last_run>>
    /\ UNCHANGED <<request_size, command, since, last_run, last_object_ids,
                   stored_events>>

\* the host invokes the integration again with the command that just failed:
\* as every invocation, a fresh interpreter that runs main from its first line
Retry ==
    /\ integration = "OktaLog"
    /\ pc = "failed"
    /\ pc' = "main"
    /\ results' = NoResults
    /\ error' = NoError
    /\ sent' = <<>>
    /\ events' = <<>>
    /\ stored_events' = <<>>
    /\ replay' = TRUE
    /\ UNCHANGED <<upstream, lastRun, sink>>
    /\ UNCHANGED <<integration, params, new_last_run>>
    /\ UNCHANGED <<request_size, command, since, last_run, last_object_ids>>

\* main, lines 137-162: read the configuration and the last run, build the client
BuildClient ==
    /\ integration = "OktaLog"
    /\ pc = "main"
    /\ request_size' = ParseRequestSize(params.request_size)
    /\ IF ~IntParses(demisto_params_after(params, lastRun))
       THEN \* after = int(demisto_params['after']) raises ValueError
            /\ pc' = "failed"
            /\ error' = [exc |-> "ValueError", cause |-> "int"]
            /\ UNCHANGED <<since, last_run, last_object_ids>>
       ELSE /\ last_run' = lastRun
            /\ last_object_ids' =
                  IF ~IsEventsCommand(command) \/ ~HasKey(lastRun, "ids") THEN <<>>
                  ELSE lastRun.ids
            /\ since' = IF HasKey(lastRun, "after") THEN lastRun.after
                        ELSE isoformat(Today - params.after.t * TicksPerDay)
            /\ pc' = "first_call"
            /\ UNCHANGED error
    /\ UNCHANGED <<upstream, lastRun, sink>>
    /\ UNCHANGED cfgVars
    /\ UNCHANGED <<sent, command, events, stored_events, results>>

\* faulty variant of CallRaises: the failure is logged and the generator just ends, so
\* aggregated_results returns the pages fetched so far
CallRaises_partial ==
    /\ integration = "OktaLog"
    /\ pc \in {"first_call", "next_call"}
    /\ pc' = "aggregated"
    /\ error' = [exc |-> "DemistoException", cause |-> "HTTPError"]
    /\ UNCHANGED <<upstream, lastRun, sink>>
    /\ UNCHANGED cfgVars
    /\ UNCHANGED <<request_size, sent, command, since, last_run, last_object_ids,
                   events, stored_events, results>>

\* Client.call: requests.request or raise_for_status raised; the generator and
\* aggregated_results let the DemistoException through, main does not catch it
CallRaises ==
    /\ integration = "OktaLog"
    /\ pc \in {"first_call", "next_call"}
    /\ pc' = "failed"
    /\ error' = [exc |-> "DemistoException", cause |-> "HTTPError"]
    /\ UNCHANGED <<upstream, lastRun, sink>>
    /\ UNCHANGED cfgVars
    /\ UNCHANGED <<request_size, sent, command, since, last_run, last_object_ids,
                   events, stored_events, results>>

\* _iter_events lines 82-84 with aggregated_results line 100: the page is
\* yielded and stored, its last event popped and made the next `since`
YieldAndAdvance(es) ==
    /\ stored_events' = stored_events \o es
    /\ events' = Front(es)
    /\ since' = Last(es).published
    /\ pc' = "next_call"
    /\ UNCHANGED error

\* the generator is exhausted: aggregated_results returns to main
Exhausted(es) ==
    /\ events' = es
    /\ pc' = "aggregated"
    /\ UNCHANGED <<stored_events, since, error>>

\* _iter_events lines 75-80, then the first turn of the loop
FirstCall ==
    /\ integration = "OktaLog"
    /\ pc = "first_call"
    /\ Len(stored_events) <= MaxStored
    /\ LET page == Page(upstream, since, params.limit)
           dedup == IF last_object_ids # <<>>
                    THEN remove_duplicates(page, last_object_ids)
                    ELSE [ok |-> TRUE, events |-> page]
       IN  IF ~dedup.ok
           THEN /\ pc' = "failed"
                /\ error' = [exc |-> "IndexError", cause |-> "remove_duplicates"]
                /\ UNCHANGED <<events, stored_events, since>>
           ELSE IF dedup.events = <<>> THEN Exhausted(<<>>)
           ELSE YieldAndAdvance(dedup.events)
    /\ UNCHANGED <<upstream, lastRun, sink>>
    /\ UNCHANGED cfgVars
    /\ UNCHANGED <<request_size, sent, command, last_run, last_object_ids, results>>

\* _iter_events lines 85-92, then the next turn of the loop: the re-fetched
\* page loses its first element; an empty rest breaks the loop
NextCall ==
    /\ integration = "OktaLog"
    /\ pc = "next_call"
    /\ Len(stored_events) <= MaxStored
    /\ LET page == Page(upstream, since, params.limit)
       IN  IF page = <<>> \/ Tail(page) = <<>> THEN Exhausted(<<>>)
           ELSE YieldAndAdvance(Tail(page))
    /\ UNCHANGED <<upstream, lastRun, sink>>
    /\ UNCHANGED cfgVars
    /\ UNCHANGED <<request_size, sent, command, last_run, last_object_ids, results>>

\* main lines 164-185, up to the first send: the command's branch
Dispatch ==
    /\ integration = "OktaLog"
    /\ pc = "aggregated"
    /\ IF ~IsEventsCommand(command)
       THEN \* test-module: demisto.results('ok')
            /\ results' = [kind |-> "ok", events |-> <<>>]
            /\ pc' = "done"
            /\ UNCHANGED <<lastRun, events, error>>
       ELSE IF stored_events = <<>>
       THEN /\ pc' = "done"
            /\ UNCHANGED <<lastRun, events, results, error>>
       ELSE IF ~StrptimeParses(Last(stored_events).published)
       THEN \* get_last_run: strptime raises ValueError
            /\ pc' = "failed"
            /\ error' = [exc |-> "ValueError", cause |-> "strptime"]
            /\ UNCHANGED <<lastRun, events, results>>
       ELSE /\ lastRun' = get_last_run(stored_events)
            /\ IF command = "fetch-events"
               THEN /\ events' = stored_events
                    /\ pc' = "sending"
                    /\ UNCHANGED results
               ELSE \* okta-get-events: return_results(CommandResults(outputs=events))
                    /\ results' = [kind |-> "events", events |-> stored_events]
                    /\ pc' = "done"
                    /\ UNCHANGED events
            /\ UNCHANGED error
    /\ UNCHANGED <<upstream, sink>>
    /\ UNCHANGED cfgVars
    /\ UNCHANGED <<request_size, sent, command, since, last_run, last_object_ids,
                   stored_events>>

\* main lines 175-176: events[:request_size] is sent, events[request_size:] is left
Chunk(es, n) == SliceTo(es, n)
\* faulty variant of Rest: the slice starts one element too far
Rest_skips(es, n) == SliceFrom(es, n + 1)
Rest(es, n) == SliceFrom(es, n)

\* main lines 174-176: one turn of the delivery loop
SendChunk ==
    /\ integration = "OktaLog"
    /\ pc = "sending"
    /\ Len(sink) < MaxSink
    /\ sent' = Append(sent, Chunk(events, request_size))
    /\ sink' = Append(sink, Chunk(events, request_size))
    /\ events' = Rest(events, request_size)
    /\ pc' = IF Len(events') > 0 THEN "sending" ELSE "done"
    /\ UNCHANGED <<upstream, lastRun>>
    /\ UNCHANGED cfgVars
    /\ UNCHANGED <<request_size, command, since, last_run, last_object_ids,
                   stored_events, results, error>>

\* send_events_to_xsiam raises (the sink is unreachable or rejects the chunk)
SendRaises ==
    /\ integration = "OktaLog"
    /\ pc = "sending"
    /\ pc' = "failed"
    /\ error' = [exc |-> "DemistoException", cause |-> "send_events_to_xsiam"]
    /\ UNCHANGED <<upstream, lastRun, sink>>
    /\ UNCHANGED cfgVars
    /\ UNCHANGED <<request_size, sent, command, since, last_run, last_object_ids,
                   events, stored_events, results>>

\* ===================================================== OKTA_SIEM_Data
\* sorted(new_events, key=published as datetime): stable, ascending
InsertSorted(e, s) ==
    LET k == Cardinality({i \in 1..Len(s) : s[i].published.t <= e.published.t})
    IN  SubSeq(s, 1, k) \o <<e>> \o SubSeq(s, k + 1, Len(s))
RECURSIVE SortByPublished(_)
SortByPublished(es) ==
    IF es = <<>> THEN <<>> ELSE InsertSorted(Last(es), SortByPublished(Front(es)))

\* Client.should_reset_list: both times cut at the '.', then compared
should_reset_list(previous_fetch_time, new_fetch_time) ==
    Sec(new_fetch_time.t) > Sec(previous_fetch_time.t)

\* Client.get_paged_results: the first page, then every "next" page while the
\* page at hand is not empty
RECURSIVE FollowNext(_, _)
FollowNext(rest, n) ==
    IF rest = <<>> THEN <<>> ELSE SliceTo(rest, n) \o FollowNext(SliceFrom(rest, n), n)
get_paged_results(es, s, n) == FollowNext(SinceFilter(es, s), n)

\* Client.__init__: first_fetch = arg_to_datetime('3 days').isoformat()
FirstFetchDays == 3
first_fetch == isoformat(Today - FirstFetchDays * TicksPerDay)

\* Client.fetch_logs: (sorted_events_to_save, new_last_run); ok = FALSE when
\* sorted_events_to_save[-1] raises IndexError
fetch_logs(lr, es, n) ==
    LET fetch_start_time == IF HasKey(lr, "last_event_created_time")
                            THEN lr.last_event_created_time ELSE first_fetch
        previous_fetched_uuids == IF HasKey(lr, "previous_fetched_uuids")
                                  THEN lr.previous_fetched_uuids ELSE <<>>
        res == get_paged_results(es, fetch_start_time, n)
        new_events == SelectSeq(res, LAMBDA item :
                                        item.uuid \notin ToSet(previous_fetched_uuids))
        \* item_uuid := (item.get('uuid') not in previous_fetched_uuids): the
        \* walrus binds the comparison, so every appended "uuid" is True
        new_events_uuids == [i \in 1..Len(new_events) |-> "True"]
        sorted_events_to_save == SortByPublished(new_events)
    IN  IF res = <<>>
        THEN [ok |-> TRUE, events |-> <<>>, new_last_run |-> lr]
        ELSE IF sorted_events_to_save = <<>>
        THEN [ok |-> FALSE, events |-> <<>>, new_last_run |-> lr]
        ELSE LET last_event_created_time == Last(sorted_events_to_save).published
             IN  [ok |-> TRUE,
                  events |-> sorted_events_to_save,
                  new_last_run |->
                    [last_event_created_time |-> last_event_created_time,
                     previous_fetched_uuids |->
                        IF ~should_reset_list(fetch_start_time, last_event_created_time)
                        THEN previous_fetched_uuids \o new_events_uuids
                        ELSE new_events_uuids]]

\* what the host may ask for; main compares with 'test_module',
\* 'fetch-incidents' and 'okta-get-logs'
SiemCommands == {"test-module", "test_module", "fetch-incidents", "okta-get-logs"}

\* main lines 232-262.  `command is '<literal>'` compares identities: for equal
\* strings the outcome depends on the interpreter's interning (identical), for
\* different strings it is False.
SiemStart(c) ==
    /\ integration = "OKTA_SIEM_Data"
    /\ pc \in {"idle", "done", "failed"}
    /\ sent' = <<>>
    /\ command' = c
    /\ results' = NoResults
    /\ \E identical \in BOOLEAN :
         IF identical /\ c = "test_module"
         THEN \* test_module(client): TypeError, caught by main, return_error
              /\ pc' = "failed"
              /\ error' = [exc |-> "TypeError", cause |-> "test_module"]
         ELSE /\ pc' = IF identical /\ c = "fetch-incidents" THEN "siem_fetch"
                       ELSE IF identical /\ c = "okta-get-logs" THEN "siem_get_logs"
                       ELSE "done"
              /\ error' = NoError
    /\ UNCHANGED <<upstream, lastRun, sink>>
    /\ UNCHANGED cfgVars
    /\ UNCHANGED <<request_size, since, last_run, last_object_ids, events,
                   stored_events>>

\* fetch_logs_command: fetch_logs, then return_results of what it returned
SiemFetchLogs ==
    /\ integration = "OKTA_SIEM_Data"
    /\ pc = "siem_fetch"
    /\ LET r == fetch_logs(lastRun, upstream, params.limit)
       IN  IF r.ok
           THEN /\ results' = [kind |-> "events", events |-> r.events]
                /\ new_last_run' = r.new_last_run
                /\ pc' = "done"
                /\ UNCHANGED error
           ELSE /\ pc' = "failed"
                /\ error' = [exc |-> "IndexError", cause |-> "fetch_logs"]
                /\ UNCHANGED <<results, new_last_run>>
    /\ UNCHANGED <<upstream, lastRun, sink, integration, params, replay>>
    /\ UNCHANGED <<request_size, sent, command, since, last_run, last_object_ids,
                   events, stored_events>>

\* get_logs_command: the logs since the `since` argument, returned as results
SiemGetLogs ==
    /\ integration = "OKTA_SIEM_Data"
    /\ pc = "siem_get_logs"
    /\ \E t \in Times :
         results' = [kind |-> "events",
                     events |-> get_paged_results(upstream, OktaTs(t), params.limit)]
    /\ pc' = "done"
    /\ UNCHANGED <<upstream, lastRun, sink>>
    /\ UNCHANGED cfgVars
    /\ UNCHANGED <<request_size, sent, command, since, last_run, last_object_ids,
                   events, stored_events, error>>

\* test_module(client, args), called directly: GET users/me, CommandResults('ok')
SiemTestModule ==
    /\ integration = "OKTA_SIEM_Data"
    /\ pc \in {"idle", "done", "failed"}
    /\ sent' = <<>>
    /\ command' = "test_module"
    /\ \/ /\ results' = [kind |-> "ok", events |-> <<>>]
          /\ pc' = "done"
          /\ error' = NoError
       \/ /\ results' = NoResults
          /\ pc' = "failed"
          /\ error' = [exc |-> "DemistoException", cause |-> "HTTPError"]
    /\ UNCHANGED <<upstream, lastRun, sink>>
    /\ UNCHANGED cfgVars
    /\ UNCHANGED <<request_size, since, last_run, last_object_ids, events,
                   stored_events>>

\* BaseClient._http_request raises inside a command; main catches, return_error
SiemHttpRaises ==
    /\ integration = "OKTA_SIEM_Data"
    /\ pc \in {"siem_fetch", "siem_get_logs"}
    /\ pc' = "failed"
    /\ error' = [exc |-> "DemistoException", cause |-> "HTTPError"]
    /\ UNCHANGED <<upstream, lastRun, sink>>
    /\ UNCHANGED cfgVars
    /\ UNCHANGED <<request_size, sent, command, since, last_run, last_object_ids,
                   events, stored_events, results>>

\* ====================================================== specification
NoSince == [fmt |-> "none", t |-> 0]

Limits == {1, 2, 3}
RequestSizeParams == {IntStr(-1), IntStr(0), IntStr(1), IntStr(2), NotAnInt}
AfterParams == {IntStr(1)}

Init ==
    /\ integration \in {"OktaLog", "OKTA_SIEM_Data"}
    /\ params \in [limit : Limits,
                   request_size : IF integration = "OktaLog" THEN RequestSizeParams
                                  ELSE {NotAnInt},
                   after : AfterParams]
    /\ upstream = <<>>
    /\ lastRun = NoLastRun
    /\ request_size = DefaultRequestSize
    /\ sent = <<>>
    /\ command = "none"
    /\ pc = "idle"
    /\ since = NoSince
    /\ last_run = NoLastRun
    /\ last_object_ids = <<>>
    /\ events = <<>>
    /\ stored_events = <<>>
    /\ sink = <<>>
    /\ results = NoResults
    /\ new_last_run = NoLastRun
    /\ error = NoError
    /\ replay = FALSE

Next ==
    \/ UpstreamAppend
    \/ \E c \in OktaCommands : Start(c)
    \/ BuildClient
    \/ FirstCall
    \/ NextCall
    \/ CallRaises
    \/ Dispatch
    \/ SendChunk
    \/ SendRaises
    \/ \E c \in SiemCommands : SiemStart(c)
    \/ SiemFetchLogs
    \/ SiemGetLogs
    \/ SiemTestModule
    \/ SiemHttpRaises

Spec == Init /\ [][Next]_vars

\* the no-failure world of the scheduled fetch: fetch-events is invoked again
\* and again and every call succeeds
LiveInit == Init /\ integration = "OktaLog"
LiveNext ==
    \/ UpstreamAppend
    \/ Start("fetch-events")
    \/ BuildClient
    \/ FirstCall
    \/ NextCall
    \/ Dispatch
    \/ SendChunk
LiveSpec ==
    /\ LiveInit
    /\ [][LiveNext]_vars
    /\ WF_vars(Start("fetch-events"))
    /\ WF_vars(BuildClient)
    /\ WF_vars(FirstCall)
    /\ WF_vars(NextCall)
    /\ WF_vars(Dispatch)
    /\ WF_vars(SendChunk)

\* the upstream changes between runs only, never under a running fetch
QuietAppend == pc \in {"idle", "done", "failed"} /\ UpstreamAppend
QuietNext ==
    \/ QuietAppend
    \/ \E c \in OktaCommands : Start(c)
    \/ BuildClient
    \/ FirstCall
    \/ NextCall
    \/ CallRaises
    \/ Dispatch
    \/ SendChunk
    \/ SendRaises
QuietSpec == LiveInit /\ [][QuietNext]_vars

\* ------------------------------------ a look-back window of any length
\* the `after` parameter may be 0 days: the first run then starts at the wall
\* clock and the upstream holds events older than its `since`
WindowAfterParams == {IntStr(0)} \cup AfterParams
WindowInit ==
    /\ integration = "OktaLog"
    /\ params \in [limit : Limits, request_size : {IntStr(2), NotAnInt},
                   after : WindowAfterParams]
    /\ upstream = <<>>
    /\ lastRun = NoLastRun
    /\ request_size = DefaultRequestSize
    /\ sent = <<>>
    /\ command = "none"
    /\ pc = "idle"
    /\ since = NoSince
    /\ last_run = NoLastRun
    /\ last_object_ids = <<>>
    /\ events = <<>>
    /\ stored_events = <<>>
    /\ sink = <<>>
    /\ results = NoResults
    /\ new_last_run = NoLastRun
    /\ error = NoError
    /\ replay = FALSE
WindowNext ==
    \/ UpstreamAppend
    \/ \E c \in {"okta-get-events", "fetch-events"} : Start(c)
    \/ BuildClient
    \/ FirstCall
    \/ NextCall
    \/ CallRaises
    \/ Dispatch
    \/ SendChunk
    \/ SendRaises
WindowSpec == WindowInit /\ [][WindowNext]_vars

\* ------------------------------- OKTA_SIEM_Data, one fetch after another
\* whoever runs the fetch stores the last-run object it returned (the
\* integration itself never does), so that the next fetch starts from it
CallerStoresLastRun ==
    /\ integration = "OKTA_SIEM_Data"
    /\ pc = "done"
    /\ command = "fetch-incidents"
    /\ results.kind = "events"
    /\ lastRun # new_last_run
    /\ Len(new_last_run.previous_fetched_uuids) <= MaxStored
    /\ lastRun' = new_last_run
    /\ UNCHANGED <<upstream, sink>>
    /\ UNCHANGED cfgVars
    /\ UNCHANGED runVars

\* the next fetch-incidents invocation, main to return_results, from the stored
\* last-run object; `results` still holds what the fetch before it returned
NextFetchRun ==
    /\ integration = "OKTA_SIEM_Data"
    /\ pc = "done"
    /\ command = "fetch-incidents"
    /\ results.kind = "events"
    /\ lastRun = new_last_run
    /\ LET r == fetch_logs(lastRun, upstream, params.limit)
       IN  IF r.ok
           THEN /\ results' = [kind |-> "events", events |-> r.events]
                /\ new_last_run' = r.new_last_run
                /\ pc' = "done"
                /\ UNCHANGED error
           ELSE /\ pc' = "failed"
                /\ error' = [exc |-> "IndexError", cause |-> "fetch_logs"]
                /\ UNCHANGED <<results, new_last_run>>
    /\ UNCHANGED <<upstream, lastRun, sink, integration, params, replay>>
    /\ UNCHANGED <<request_size, sent, command, since, last_run, last_object_ids,
                   events, stored_events>>

SiemChainInit == Init /\ integration = "OKTA_SIEM_Data"
SiemChainNext ==
    \/ UpstreamAppend
    \/ \E c \in SiemCommands : SiemStart(c)
    \/ SiemFetchLogs
    \/ SiemGetLogs
    \/ SiemTestModule
    \/ SiemHttpRaises
    \/ CallerStoresLastRun
    \/ NextFetchRun
SiemChainSpec == SiemChainInit /\ [][SiemChainNext]_vars

\* --------------------------------------------- failed runs replayed
\* the upstream content is settled before the first invocation and stays as it
\* is; a failed invocation is followed by its replay
SettleAppend == pc = "idle" /\ UpstreamAppend
FreshStart == pc \in {"idle", "done"} /\ Start("fetch-events")
ReplayNext ==
    \/ SettleAppend
    \/ FreshStart
    \/ Retry
    \/ BuildClient
    \/ FirstCall
    \/ NextCall
    \/ CallRaises
    \/ Dispatch
    \/ SendChunk
    \/ SendRaises
ReplaySpec == LiveInit /\ [][ReplayNext]_vars

\* ------------------------------------------- a damaged last-run store
\* last-run objects whose `after` is no timestamp, with and without `ids`
MalformedStores == {[after |-> NotAnInt, ids |-> <<>>], [after |-> NotAnInt]}

\* the host's store is damaged between two invocations
StoreCorrupted ==
    /\ pc \in {"idle", "done", "failed"}
    /\ lastRun \notin MalformedStores
    /\ lastRun' \in MalformedStores
    /\ UNCHANGED <<upstream, sink>>
    /\ UNCHANGED cfgVars
    /\ UNCHANGED runVars

CorruptNext ==
    \/ QuietNext
    \/ StoreCorrupted

CorruptSpec == LiveInit /\ [][CorruptNext]_vars

\* ---------------------------------- GetEvents on its own (OktaLog)
\* every content the upstream can have: the n-th event carries the n-th uuid,
\* the order is ascending by whole second
Upstreams ==
    {u \in UNION {[1..n -> {[uuid |-> UUIDS[i], published |-> OktaTs(t)] :
                               i \in 1..MaxEvents, t \in Times}] : n \in 0..MaxEvents} :
        /\ \A i \in 1..Len(u) : u[i].uuid = UUIDS[i]
        /\ SecondSorted(u)}

\* every list of ids a caller can hand to aggregated_results
IdLists ==
    {SelectSeq(SubSeq(UUIDS, 1, MaxEvents), LAMBDA x : x \in S) :
        S \in SUBSET ToSet(SubSeq(UUIDS, 1, MaxEvents))}

\* GetEvents(client).aggregated_results(last_object_ids) is about to run: the
\* client's `since`, the ids and the upstream content are the inputs
GetEventsInit ==
    /\ integration = "OktaLog"
    /\ params \in [limit : Limits, request_size : {NotAnInt}, after : AfterParams]
    /\ upstream \in Upstreams
    /\ since \in {OktaTs(t) : t \in Times}
    /\ last_object_ids \in IdLists
    /\ pc = "first_call"
    /\ command = "none"
    /\ lastRun = NoLastRun
    /\ last_run = NoLastRun
    /\ request_size = DefaultRequestSize
    /\ sent = <<>>
    /\ events = <<>>
    /\ stored_events = <<>>
    /\ sink = <<>>
    /\ results = NoResults
    /\ new_last_run = NoLastRun
    /\ error = NoError
    /\ replay = FALSE

GetEventsNext ==
    \/ FirstCall
    \/ NextCall
    \/ CallRaises

GetEventsSpec == GetEventsInit /\ [][GetEventsNext]_vars

\* ============================================================= claims
SinkEvents == Flatten(sink)
Delivered(u) == u \in ToSet(Uuids(SinkEvents))
Terminal == {"idle", "done", "failed"}
\* a cap of the model is reached: beyond it the model follows the run no further
AtModelBound == Len(sink) >= MaxSink \/ Len(stored_events) > MaxStored

\* C1: no uuid is handed to the sink more than once, within a run or across
\* runs (OktaLog fetch-events, delivered in chunks of a positive size).
C1_NoDuplicateDelivery ==
    (integration = "OktaLog" /\ request_size > 0) => Distinct(Uuids(SinkEvents))

\* C2: every event the upstream holds is eventually delivered to the sink by
\* some fetch run, when fetch-events keeps being invoked and no call fails
\* (runs the model's caps cut short are left out).
C2_NoGap ==
    \A i \in 1..MaxEvents :
        (Len(upstream) >= i) ~> (Delivered(UUIDS[i]) \/ AtModelBound)

\* the loop of _iter_events is about to re-fetch, and the answer reproduces the
\* loop state (same anchor, same page): every later turn is this turn again
LoopStateRepeats ==
    /\ pc = "next_call"
    /\ LET page == Page(upstream, since, params.limit)
       IN  /\ Len(page) >= 2
           /\ Last(page).published = since
           /\ Front(Tail(page)) = events

\* C3: the anchor-drop / re-fetch cycle cannot repeat forever: against an
\* unchanging upstream a run never reaches a loop state that its next turn
\* reproduces exactly, so the run issues finitely many requests.
C3_LoopTerminates ==
    integration = "OktaLog" => ~LoopStateRepeats

\* C4: when an HTTP call of a run fails the run has aborted with a
\* DemistoException carrying the cause, the persisted Watermark is the one the
\* run loaded, and the run sent nothing to the sink and returned no results.
C4_FetchFailureAllOrNothing ==
    (integration = "OktaLog" /\ error.cause = "HTTPError") =>
        /\ pc = "failed"
        /\ error.exc = "DemistoException"
        /\ lastRun = last_run
        /\ sent = <<>>
        /\ results = NoResults

\* a re-fetch of a fetch run failed after pages had been accumulated
C4_Witness ==
    /\ integration = "OktaLog"
    /\ command = "fetch-events"
    /\ pc = "failed"
    /\ error.cause = "HTTPError"
    /\ stored_events # <<>>

\* the invocation has read the last run (it is past main line 148)
PastLoad == pc \in {"first_call", "next_call", "aggregated", "sending", "done"}
            \/ (pc = "failed" /\ error.cause # "int")

\* C5: in a fetch run the Watermark is persisted only after the batch was
\* delivered: a failed run leaves the Watermark as loaded, and no state has an
\* advanced Watermark with an event of the batch still undelivered.
C5_WatermarkAfterDelivery ==
    (integration = "OktaLog" /\ command = "fetch-events" /\ PastLoad) =>
        /\ pc = "failed" => lastRun = last_run
        /\ lastRun # last_run => Flatten(sent) = stored_events

\* C6: an events run that finds a persisted Watermark starts fetching with
\* since = after and the Watermark's ids as seen set; one that finds none
\* starts from the look-back interval.
C6_ResumesFromWatermark ==
    [][(/\ integration = "OktaLog"
        /\ pc = "main"
        /\ pc' # "main"
        /\ IsEventsCommand(command))
       => /\ pc' = "first_call"
          /\ IF HasKey(lastRun, "after")
             THEN since' = lastRun.after /\ last_object_ids' = lastRun.ids
             ELSE /\ since'.t = Today - params.after.t * TicksPerDay
                  /\ last_object_ids' = <<>>]_vars

\* C7: after a fetch run that completed and delivered at least one event the
\* persisted last run is the Watermark computed from that run, in OktaLog and
\* in OKTA_SIEM_Data.
C7_SuccessfulFetchPersists ==
    /\ (integration = "OktaLog" /\ command = "fetch-events" /\ pc = "done"
            /\ Flatten(sent) # <<>>)
        => lastRun = get_last_run(stored_events)
    /\ (integration = "OKTA_SIEM_Data" /\ command = "fetch-incidents" /\ pc = "done"
            /\ results.events # <<>>)
        => lastRun = new_last_run

\* C8: no step of a query run (okta-get-events, okta-get-logs) changes the
\* persisted Watermark.
C8_QueryKeepsWatermark ==
    [][command' \in {"okta-get-events", "okta-get-logs"} => lastRun' = lastRun]_vars

\* C9: no step of a validate run (test-module, test_module) writes the
\* persisted Watermark or delivers anything, whether its call succeeds or fails.
C9_ValidateKeepsWatermark ==
    [][command' \in {"test-module", "test_module"} =>
          /\ lastRun' = lastRun
          /\ sink' = sink
          /\ sent' = <<>>
          /\ results'.events = <<>>]_vars

\* a test-module run of OktaLog that fetched events and returned 'ok'
C9_Witness ==
    /\ integration = "OktaLog"
    /\ command = "test-module"
    /\ pc = "done"
    /\ results.kind = "ok"
    /\ stored_events # <<>>

\* C10: with a positive chunk size n the chunks sent so far, followed by what
\* is left to send, are the batch; every chunk holds 1..n events, every chunk
\* but the last exactly n; at the end nothing is left.
C10_ChunkedDelivery ==
    (integration = "OktaLog" /\ command = "fetch-events" /\ request_size > 0
        /\ pc \in {"sending", "done"}) =>
        /\ Flatten(sent) \o events = stored_events
        /\ \A i \in 1..Len(sent) :
              /\ Len(sent[i]) >= 1
              /\ Len(sent[i]) <= request_size
              /\ (i < Len(sent) \/ events # <<>>) => Len(sent[i]) = request_size
        /\ pc = "done" => events = <<>>

\* a batch delivered in several chunks, the last one shorter than n
C10_Witness ==
    /\ integration = "OktaLog"
    /\ command = "fetch-events"
    /\ pc = "done"
    /\ request_size > 0
    /\ Len(sent) >= 2
    /\ Len(Last(sent)) < request_size

\* the events of es whose uuid is not in ids, in the order of es
Unseen(es, ids) == SelectSeq(es, LAMBDA e : e.uuid \notin ToSet(ids))

C14_RemoveDuplicatesExact ==
    [][(/\ integration = "OktaLog"
        /\ pc = "first_call"
        /\ pc' # "first_call"
        /\ error'.cause # "HTTPError"
        /\ last_object_ids # <<>>)
       => /\ error' = NoError
          /\ stored_events' = Unseen(Page(upstream, since, params.limit),
                                     last_object_ids)]_vars

\* the persisted Watermark cannot be parsed: its `after` is no timestamp
Malformed(lr) == HasKey(lr, "after") /\ lr.after.fmt \notin {"iso_seconds", "iso_micros"}

\* C12: an events run that finds a Watermark it cannot parse goes on as if
\* there were none: it does not fail, starts fetching from the look-back
\* interval and uses no seen ids.
C12_MalformedCursorRecovery ==
    [][(/\ integration = "OktaLog"
        /\ pc = "main"
        /\ pc' # "main"
        /\ IsEventsCommand(command)
        /\ Malformed(lastRun))
       => /\ pc' = "first_call"
          /\ error' = NoError
          /\ since'.t = Today - params.after.t * TicksPerDay
          /\ last_object_ids' = <<>>]_vars

\* where a run from Watermark lr starts: its first `since` and its seen ids
StartSince(lr, ps) ==
    IF HasKey(lr, "after") THEN lr.after
    ELSE isoformat(Today - ps.after.t * TicksPerDay)
StartIds(lr) == IF HasKey(lr, "ids") THEN lr.ids ELSE <<>>

\* what the turns after the first add to the batch, anchor s, at most k turns
RECURSIVE Refetched(_, _, _, _)
Refetched(u, n, s, k) ==
    LET page == Page(u, s, n)
    IN  IF k = 0 \/ page = <<>> \/ Tail(page) = <<>> THEN <<>>
        ELSE Tail(page) \o Refetched(u, n, Last(page).published, k - 1)

\* the batch of a run performed the first time from Watermark lr against the
\* upstream content u
RunBatch(lr, u, ps) ==
    LET page == Page(u, StartSince(lr, ps), ps.limit)
        d == IF StartIds(lr) # <<>> THEN remove_duplicates(page, StartIds(lr))
             ELSE [ok |-> TRUE, events |-> page]
    IN  IF ~d.ok \/ d.events = <<>> THEN <<>>
        ELSE d.events \o Refetched(u, ps.limit, Last(d.events).published, MaxStored + 2)

MaxPublished(es) ==
    CHOOSE t \in {es[i].published.t : i \in 1..Len(es)} :
        \A i \in 1..Len(es) : es[i].published.t <= t

\* C15: after a fetch run that delivered a non-empty batch the persisted
\* Watermark's `after` is the greatest `published` of the delivered events and
\* its `ids` are exactly the uuids of the delivered events published at it.
C15_CursorComputation ==
    (integration = "OktaLog" /\ command = "fetch-events" /\ pc = "done"
        /\ Flatten(sent) # <<>>) =>
        LET batch == Flatten(sent)
        IN  /\ HasKey(lastRun, "after") /\ HasKey(lastRun, "ids")
            /\ lastRun.after.t = MaxPublished(batch)
            /\ ToSet(lastRun.ids) =
                  {batch[i].uuid : i \in {j \in 1..Len(batch) :
                                            batch[j].published.t = MaxPublished(batch)}}

\* a delivered batch the upstream did not return in the order of `published`
C15_Witness ==
    /\ integration = "OktaLog"
    /\ command = "fetch-events"
    /\ pc = "done"
    /\ \E i, j \in 1..Len(Flatten(sent)) :
          i < j /\ Flatten(sent)[i].published.t > Flatten(sent)[j].published.t

\* where a fetch of OKTA_SIEM_Data starts from last-run object lr
FetchStart(lr) ==
    IF HasKey(lr, "last_event_created_time") THEN lr.last_event_created_time
    ELSE first_fetch
PriorIds(lr) ==
    IF HasKey(lr, "previous_fetched_uuids") THEN ToSet(lr.previous_fetched_uuids)
    ELSE {}

\* C16: when a fetch returns a new last-run object, (a) if its timestamp is
\* later than the fetch start by any amount, none of the prior ids is in its
\* previous_fetched_uuids, and (b) every id in previous_fetched_uuids is the
\* uuid of an event published exactly at its last_event_created_time.
C16_SeenIdsReplaced ==
    [][(integration = "OKTA_SIEM_Data" /\ new_last_run' # new_last_run) =>
          LET new == new_last_run'
              ids == ToSet(new.previous_fetched_uuids)
          IN  /\ new.last_event_created_time.t > FetchStart(lastRun).t =>
                    ids \cap PriorIds(lastRun) = {}
              /\ \A id \in ids : \E i \in 1..Len(upstream) :
                    /\ upstream[i].uuid = id
                    /\ upstream[i].published = new.last_event_created_time]_vars

\* C17: a fetch that starts from the last-run object W of the fetch before it
\* returns none of the events E that fetch returned and every event that
\* arrived since, those published at W's timestamp included; W's
\* previous_fetched_uuids holds the uuids of the events of E published at W's
\* timestamp.
C17_BoundaryDedup ==
    [][(/\ integration = "OKTA_SIEM_Data"
        /\ pc = "done" /\ command = "fetch-incidents" /\ results.kind = "events"
        /\ results.events # <<>>
        /\ lastRun = new_last_run
        /\ upstream' = upstream
        /\ command' = command
        /\ \/ pc' = "done" /\ new_last_run' # new_last_run
           \/ pc' = "failed" /\ error'.cause = "fetch_logs")
       => LET E == ToSet(results.events)
              W == lastRun
          IN  /\ \A e \in E : e.published = W.last_event_created_time =>
                    e.uuid \in ToSet(W.previous_fetched_uuids)
              /\ pc' = "done"
              /\ ToSet(results'.events) \cap E = {}
              /\ \A i \in 1..Len(upstream) :
                    (upstream[i] \notin E
                        /\ upstream[i].published.t >= W.last_event_created_time.t)
                    => upstream[i] \in ToSet(results'.events)]_vars

\* es is ascending by `published`
Ascending(es) ==
    \A i, j \in 1..Len(es) : i < j => es[i].published.t <= es[j].published.t
\* position of event e in the list es that holds it
IndexIn(es, e) == CHOOSE i \in 1..Len(es) : es[i] = e
\* events of out with the same `published` stand in the order they have in fetched
TiesInFetchOrder(out, fetched) ==
    \A i, j \in 1..Len(out) :
        (i < j /\ out[i].published.t = out[j].published.t /\ out[i] # out[j])
        => IndexIn(fetched, out[i]) < IndexIn(fetched, out[j])

\* C18: the batch a fetch run emits is ascending by `published`, ties in fetch
\* order: what OktaLog main has sent to the sink at any point of the delivery
\* (chunks of a positive size), and the list OKTA_SIEM_Data fetch_logs returned.
C18_BatchOrdering ==
    /\ (integration = "OktaLog" /\ command = "fetch-events" /\ request_size > 0
            /\ pc \in {"sending", "done"})
        => /\ Ascending(Flatten(sent))
           /\ TiesInFetchOrder(Flatten(sent), stored_events)
    /\ (integration = "OKTA_SIEM_Data" /\ command = "fetch-incidents" /\ pc = "done"
            /\ results.kind = "events")
        => /\ Ascending(results.events)
           /\ TiesInFetchOrder(results.events, upstream)

SendLoopRepeats ==
    /\ pc = "sending"
    /\ Rest(events, request_size) = events

\* C20: for every request_size main accepts, every turn of the delivery loop
\* leaves fewer events to send than it found, so the loop ends, and the chunks
\* sent so far followed by what is left are the batch (no event sent twice).
C20_ChunkLoopTerminates ==
    (integration = "OktaLog" /\ command = "fetch-events"
        /\ pc \in {"sending", "done"}) =>
        /\ ~SendLoopRepeats
        /\ Flatten(sent) \o events = stored_events

====
